---------------------------- MODULE Spec2Model ----------------------------
(***************************************************************************)
(* A model of the <composited-card> web component                          *)
(* (src/src/composited-card.component.ts): its reactive properties, its    *)
(* private fields, the LitElement update cycle that drives render() and    *)
(* updated(), the outstanding fetch promises, and the shared resize        *)
(* observer's notifications.                                               *)
(***************************************************************************)
EXTENDS Integers, Sequences, FiniteSets, TLC

(***************************************************************************)
(* JavaScript values.  A value carries its type tag; an object is a        *)
(* function from its own keys to values, so that an absent key and a key   *)
(* holding undefined are different things, as they are in the code.        *)
(***************************************************************************)
Undefined == [t |-> "undefined"]
Null == [t |-> "null"]
Num(n) == [t |-> "number", n |-> n]
Str(s) == [t |-> "string", s |-> s]
Obj(f) == [t |-> "object", f |-> f]

\* The empty object {}.
NoKeys == [k \in {} |-> Undefined]

\* v.k on a value that is not undefined or null: the property when v is an
\* object that has it, undefined otherwise (also for a primitive v).
Prop(v, k) == IF v.t = "object" /\ k \in DOMAIN v.f THEN v.f[k] ELSE Undefined

\* v.k throws a TypeError exactly when v is undefined or null.
PropThrows(v) == v.t \in {"undefined", "null"}

\* rec.k on a record held as a function of its keys.
Get(rec, k) == IF k \in DOMAIN rec THEN rec[k] ELSE Undefined

\* { ...v }: the own properties of an object, nothing for undefined or null.
Spread(v) == IF v.t = "object" THEN [k \in DOMAIN v.f |-> v.f[k]] ELSE NoKeys

\* arr[i] on a JavaScript array, held as a sequence: zero-based, and
\* undefined outside 0 .. length-1.
At(arr, i) == IF i >= 0 /\ i < Len(arr) THEN Str(arr[i + 1]) ELSE Undefined

(***************************************************************************)
(* Module constants of the component.                                      *)
(***************************************************************************)
legacyQualities ==
  <<"plain", "plain", "bronze", "iron", "meteorite", "shadow", "gold", "diamond">>

qualities == <<"diamond", "gold", "shadow", "meteorite", "plain">>

\* The keys of ICardProtoData.
CardKeys ==
  {"type", "effect", "name", "rarity", "god", "set", "tribe", "mana", "id",
   "attack", "health", "art_id"}

\* The values of the quality property: 0 | 1 | ... | 7.
MaxQuality == 7
Qualities == 0 .. MaxQuality

\* The names of the reactive properties.
PropNames ==
  {"protoId", "quality", "inputProtoData", "responsiveSrcsetSizes",
   "useLegacyQualityMapping"}

(***************************************************************************)
(* Bounds of the model.                                                    *)
(***************************************************************************)
\* Fetches started in one behaviour.
MaxFetches == 2
\* Other instances of the component on the page.
MaxPeers == 2

\* Box sizes the resize observer reports: <<offsetHeight, offsetWidth>>.
Boxes == {<<200, 100>>, <<400, 300>>}

(***************************************************************************)
(* The data the environment supplies.                                      *)
(***************************************************************************)
\* Card identifiers the host assigns.
Ids == {1, 2}

Rarity(i) == IF i % 2 = 1 THEN "mythic" ELSE "common"

\* The body the card API answers for proto i when all is well: numbers and
\* the tribe arrive in envelopes, and there are keys the component ignores.
WellFormedFields(i) ==
  [id |-> Num(i), type |-> Str("creature"), effect |-> Str("roar"),
   name |-> Str("card"), rarity |-> Str(Rarity(i)), god |-> Str("nature"),
   mana |-> Num(i + 1), set |-> Str("core"), art_id |-> Str("art"),
   attack |-> Obj([Int64 |-> Num(i + 2), Valid |-> Str("true")]),
   health |-> Obj([Int64 |-> Num(i + 3), Valid |-> Str("true")]),
   tribe |-> Obj([String |-> Str("beast"), Valid |-> Str("true")]),
   lib_id |-> Str("lib")]

Drop(f, k) == [x \in DOMAIN f \ {k} |-> f[x]]

\* The shapes of body a fetch can resolve with.
PayloadKinds ==
  {"ok", "attackAbsent", "attackNoInt64", "healthNoInt64", "tribeNoString"}

Payload(i, kind) ==
  LET f == WellFormedFields(i) IN
  CASE kind = "ok" -> Obj(f)
    [] kind = "attackAbsent" -> Obj(Drop(f, "attack"))
    [] kind = "attackNoInt64" ->
         Obj([f EXCEPT !["attack"] = Obj([Valid |-> Str("false")])])
    [] kind = "healthNoInt64" ->
         Obj([f EXCEPT !["health"] = Obj([Valid |-> Str("false")])])
    [] kind = "tribeNoString" ->
         Obj([f EXCEPT !["tribe"] = Obj([Valid |-> Str("false")])])

\* Objects the host assigns to inputProtoData: a full record and one that
\* lacks most fields.
FullInput ==
  Obj([id |-> Str("900"), type |-> Str("spell"), effect |-> Str("burn"),
       name |-> Str("direct"), rarity |-> Str("mythic"), god |-> Str("war"),
       set |-> Str("genesis"), tribe |-> Str(""), mana |-> Str("4"),
       attack |-> Num(7), health |-> Num(8), art_id |-> Str("art900")])

PartialInput == Obj([name |-> Str("direct"), rarity |-> Str("rare")])

InputDatas == {FullInput, PartialInput}

SrcsetSizes == {Str("100vw")}

(***************************************************************************)
(* The state of one component instance.                                    *)
(***************************************************************************)
VARIABLES
  protoId,                  \* @property protoId
  quality,                  \* @property quality
  inputProtoData,           \* @property inputProtoData
  responsiveSrcsetSizes,    \* @property responsiveSrcsetSizes
  useLegacyQualityMapping,  \* @property useLegacyQualityMapping
  protoCardData,            \* the stored card data
  ch, cw,                   \* 1% of the container's height and width
  loading,                  \* the loading flag
  connection,               \* "created", "connected" or "disconnected"
  changedProps,             \* LitElement: properties changed since the last update
  updatePending,            \* LitElement: an update has been requested
  fetches,                  \* the fetch promises started, in order
  view,                     \* what the last render pass produced
  ro,                       \* the elements the shared observer ro observes
  peer                      \* the other instances: connection, ch and cw

props ==
  <<protoId, quality, inputProtoData, responsiveSrcsetSizes,
    useLegacyQualityMapping>>
vars ==
  <<protoId, quality, inputProtoData, responsiveSrcsetSizes,
    useLegacyQualityMapping, protoCardData, ch, cw, loading, connection,
    changedProps, updatePending, fetches, view, ro, peer>>

\* This instance and the other instances, as the observer's targets.
Self == 0
Peers == 1 .. MaxPeers

\* The field initialiser of protoCardData.
EmptyCard ==
  [type |-> Str(""), effect |-> Str(""), name |-> Str(""), rarity |-> Str(""),
   god |-> Str(""), set |-> Str(""), mana |-> Str(""), id |-> Str(""),
   attack |-> Null, health |-> Null, tribe |-> Str(""), art_id |-> Str("")]

\* offsetHeight * 0.01, for the whole hundreds of pixels of Boxes.
PercentDivisor == 100
Percent(px) == px \div PercentDivisor

NoView == [qualityName |-> Undefined, layers |-> <<>>]

\* The state the constructor leaves: the field initialisers run first (they
\* record quality and useLegacyQualityMapping as changed and request the
\* first update), then the body; the element has no box yet.
Init ==
  /\ protoId = Undefined
  /\ quality = 0
  /\ inputProtoData = Undefined
  /\ responsiveSrcsetSizes = Undefined
  /\ useLegacyQualityMapping = FALSE
  /\ protoCardData = EmptyCard
  /\ ch = Percent(0)
  /\ cw = Percent(0)
  /\ loading = TRUE
  /\ connection = "created"
  /\ changedProps = <<"quality", "useLegacyQualityMapping">>
  /\ updatePending = TRUE
  /\ fetches = <<>>
  /\ view = NoView
  /\ ro = {}
  /\ peer = [p \in Peers |-> [connection |-> "created", ch |-> Percent(0),
                               cw |-> Percent(0)]]

(***************************************************************************)
(* render()                                                                *)
(***************************************************************************)
\* Mutant: the legacy list read one slot too low.
qualityName_LegacyOffByOne ==
  IF useLegacyQualityMapping
    THEN At(legacyQualities, quality - 1)
    ELSE At(qualities, quality - 1)

\* Mutant: the current list read without the shift by one.
qualityName_NoShift ==
  IF useLegacyQualityMapping
    THEN At(legacyQualities, quality)
    ELSE At(qualities, quality)

\* const qualityName = useLegacyQualityMapping ? legacyQualities[quality]
\*                                             : qualities[quality - 1]
qualityName ==
  IF useLegacyQualityMapping
    THEN At(legacyQualities, quality)
    ELSE At(qualities, quality - 1)

\* Mutant: the rarity compared with a capitalised name.
isMythicCard_Capitalised == Get(protoCardData, "rarity") = Str("Mythic")

\* const isMythicCard = this.protoCardData.rarity === 'mythic'
isMythicCard == Get(protoCardData, "rarity") = Str("mythic")

\* The templates, each a layer with the parameters it is called with.  In
\* an object literal a later key replaces an earlier one, so the spread of
\* protoCardData takes precedence over the keys written before it.
loadingTemplate == [layer |-> "loading", params |-> NoKeys]

baseArtworkLayersTemplate ==
  [layer |-> "baseArtwork",
   params |-> [id |-> Get(protoCardData, "id"),
               responsiveSrcsetSizes |-> responsiveSrcsetSizes]]

mythicImageLayersTemplate ==
  [layer |-> "mythicImage",
   params |-> protoCardData @@
              [responsiveSrcsetSizes |-> responsiveSrcsetSizes]]

nonMythicImageLayersTemplate ==
  [layer |-> "nonMythicImage",
   params |-> protoCardData @@
              [qualityName |-> qualityName,
               responsiveSrcsetSizes |-> responsiveSrcsetSizes]]

textLayersTemplate ==
  [layer |-> "text",
   params |-> [cardSet |-> Get(protoCardData, "set")] @@ protoCardData @@
              [ch |-> Num(ch), cw |-> Num(cw)]]

\* Mutant: the text layer is emitted outside the loading conditional.
renderLayers_TextAlways ==
  IF loading
    THEN <<loadingTemplate, textLayersTemplate>>
    ELSE <<baseArtworkLayersTemplate,
           IF isMythicCard
             THEN mythicImageLayersTemplate
             ELSE nonMythicImageLayersTemplate,
           textLayersTemplate>>

\* The layers inside card__innerRatioConstrainer, in document order.
renderLayers ==
  IF loading
    THEN <<loadingTemplate>>
    ELSE <<baseArtworkLayersTemplate,
           IF isMythicCard
             THEN mythicImageLayersTemplate
             ELSE nonMythicImageLayersTemplate,
           textLayersTemplate>>

render == [qualityName |-> qualityName, layers |-> renderLayers]

(***************************************************************************)
(* The handlers, as functions of the fields they write.  s holds the       *)
(* fields protoCardData, loading, fetches and updatePending.               *)
(***************************************************************************)
\* fetchProtoData(): raise loading and start a fetch for the current protoId.
fetchProtoData(s) ==
  [s EXCEPT !.loading = TRUE,
            !.fetches = Append(@, [id |-> protoId, status |-> "pending"])]

\* getProtoDataFromApi(), up to the promise: the callback is FetchThen.
getProtoDataFromApi(s) == fetchProtoData(s)

\* A getProtoDataFromInput that merges the input into the stored record
\* and leaves loading as it is.
getProtoDataFromInput_Merges(s) ==
  [s EXCEPT !.protoCardData = Spread(inputProtoData) @@ s.protoCardData,
            !.updatePending = TRUE]

\* getProtoDataFromInput()
getProtoDataFromInput(s) ==
  [s EXCEPT !.protoCardData = Spread(inputProtoData),
            !.loading = FALSE,
            !.updatePending = TRUE]

\* A forEach callback that starts a fetch for every changed property other
\* than inputProtoData.
updatedEach_FetchOnAnyChange(propName, s) ==
  IF propName = "inputProtoData" THEN getProtoDataFromInput(s)
  ELSE getProtoDataFromApi(s)

\* The body of the forEach callback of updated().
updatedEach(propName, s) ==
  IF propName = "protoId" THEN getProtoDataFromApi(s)
  ELSE IF propName = "inputProtoData" THEN getProtoDataFromInput(s)
  ELSE s

\* updated(changedProps): the callback on each entry, in insertion order.
RECURSIVE updated(_, _)
updated(changed, s) ==
  IF changed = <<>> THEN s
  ELSE updated(Tail(changed), updatedEach(Head(changed), s))

\* The callback of getProtoDataFromApi throws a TypeError, before it
\* assigns anything, when data or one of the three envelopes is undefined
\* or null.
FetchThenThrows(data) ==
  \/ PropThrows(data)
  \/ PropThrows(Prop(data, "attack"))
  \/ PropThrows(Prop(data, "health"))
  \/ PropThrows(Prop(data, "tribe"))

\* Mutant: attack is stored with its envelope.
FetchThenCard_AttackWrapped(data) ==
  [id |-> Prop(data, "id"),
   type |-> Prop(data, "type"),
   attack |-> Prop(data, "attack"),
   health |-> Prop(Prop(data, "health"), "Int64"),
   effect |-> Prop(data, "effect"),
   name |-> Prop(data, "name"),
   rarity |-> Prop(data, "rarity"),
   god |-> Prop(data, "god"),
   mana |-> Prop(data, "mana"),
   set |-> Prop(data, "set"),
   tribe |-> Prop(Prop(data, "tribe"), "String"),
   art_id |-> Prop(data, "art_id")]

\* The record the callback of getProtoDataFromApi stores.
FetchThenCard(data) ==
  [id |-> Prop(data, "id"),
   type |-> Prop(data, "type"),
   attack |-> Prop(Prop(data, "attack"), "Int64"),
   health |-> Prop(Prop(data, "health"), "Int64"),
   effect |-> Prop(data, "effect"),
   name |-> Prop(data, "name"),
   rarity |-> Prop(data, "rarity"),
   god |-> Prop(data, "god"),
   mana |-> Prop(data, "mana"),
   set |-> Prop(data, "set"),
   tribe |-> Prop(Prop(data, "tribe"), "String"),
   art_id |-> Prop(data, "art_id")]

(***************************************************************************)
(* The steps.                                                              *)
(***************************************************************************)
\* LitElement's accessor for a reactive property: a value that differs from
\* the old one is stored, the property is recorded as changed unless it
\* already is, and an update is requested.
NoteChanged(name) ==
  /\ changedProps' =
       IF \E i \in 1 .. Len(changedProps) : changedProps[i] = name
         THEN changedProps
         ELSE Append(changedProps, name)
  /\ updatePending' = TRUE

\* Fetches that a pending change of protoId will start at the next update.
FetchesOwed == IF \E i \in 1 .. Len(changedProps) : changedProps[i] = "protoId"
                 THEN 1 ELSE 0

SetProtoId(i) ==
  /\ Num(i) # protoId
  /\ Len(fetches) + FetchesOwed < MaxFetches \/ FetchesOwed = 1
  /\ protoId' = Num(i)
  /\ NoteChanged("protoId")
  /\ UNCHANGED <<quality, inputProtoData, responsiveSrcsetSizes,
                 useLegacyQualityMapping, protoCardData, ch, cw, loading,
                 connection, fetches, view, ro, peer>>

SetQuality(q) ==
  /\ q # quality
  /\ quality' = q
  /\ NoteChanged("quality")
  /\ UNCHANGED <<protoId, inputProtoData, responsiveSrcsetSizes,
                 useLegacyQualityMapping, protoCardData, ch, cw, loading,
                 connection, fetches, view, ro, peer>>

\* Each assignment is of a fresh object, so it always counts as a change.
SetInputProtoData(d) ==
  /\ inputProtoData' = d
  /\ NoteChanged("inputProtoData")
  /\ UNCHANGED <<protoId, quality, responsiveSrcsetSizes,
                 useLegacyQualityMapping, protoCardData, ch, cw, loading,
                 connection, fetches, view, ro, peer>>

SetResponsiveSrcsetSizes(z) ==
  /\ z # responsiveSrcsetSizes
  /\ responsiveSrcsetSizes' = z
  /\ NoteChanged("responsiveSrcsetSizes")
  /\ UNCHANGED <<protoId, quality, inputProtoData, useLegacyQualityMapping,
                 protoCardData, ch, cw, loading, connection, fetches, view, ro, peer>>

SetUseLegacyQualityMapping(b) ==
  /\ b # useLegacyQualityMapping
  /\ useLegacyQualityMapping' = b
  /\ NoteChanged("useLegacyQualityMapping")
  /\ UNCHANGED <<protoId, quality, inputProtoData, responsiveSrcsetSizes,
                 protoCardData, ch, cw, loading, connection, fetches, view, ro, peer>>

\* connectedCallback(): the shared observer starts to observe the element,
\* and LitElement starts to run the updates requested so far.
connectedCallback ==
  /\ connection # "connected"
  /\ connection' = "connected"
  /\ ro' = ro \cup {Self}
  /\ UNCHANGED <<props, protoCardData, ch, cw, loading, changedProps,
                 updatePending, fetches, view, peer>>

\* A disconnectedCallback that calls ro.disconnect(), which stops the
\* observation of every element, where the code calls ro.unobserve(this).
disconnectedCallback_DisconnectsAll ==
  /\ connection = "connected"
  /\ connection' = "disconnected"
  /\ ro' = {}
  /\ UNCHANGED <<props, protoCardData, ch, cw, loading, changedProps,
                 updatePending, fetches, view, peer>>

\* disconnectedCallback(): the shared observer stops observing the element.
disconnectedCallback ==
  /\ connection = "connected"
  /\ connection' = "disconnected"
  /\ ro' = ro \ {Self}
  /\ UNCHANGED <<props, protoCardData, ch, cw, loading, changedProps,
                 updatePending, fetches, view, peer>>

\* One update of LitElement: render() on the state as it is, then
\* updated() on the properties changed since the last update.  A
\* requestUpdate() made inside updated() asks for a further update.
PerformUpdate ==
  /\ updatePending
  /\ connection # "created"
  /\ view' = render
  /\ LET s == updated(changedProps,
                      [protoCardData |-> protoCardData, loading |-> loading,
                       fetches |-> fetches, updatePending |-> FALSE])
     IN /\ protoCardData' = s.protoCardData
        /\ loading' = s.loading
        /\ fetches' = s.fetches
        /\ updatePending' = s.updatePending
  /\ changedProps' = <<>>
  /\ UNCHANGED <<props, ch, cw, connection, ro, peer>>

\* A handleResize that takes the height from the width and the width from
\* the height.
handleResize_Swapped(box) ==
  /\ Self \in ro
  /\ view # NoView
  /\ ch' = Percent(box[2])
  /\ cw' = Percent(box[1])
  /\ updatePending' = TRUE
  /\ UNCHANGED <<props, protoCardData, loading, connection, changedProps,
                 fetches, view, ro, peer>>

\* handleResize(entry), called by the shared observer's callback for an
\* entry whose target is this element, observed and with its container
\* rendered: box is the container's offsetHeight and offsetWidth.
handleResize(box) ==
  /\ Self \in ro
  /\ view # NoView
  /\ ch' = Percent(box[1])
  /\ cw' = Percent(box[2])
  /\ updatePending' = TRUE
  /\ UNCHANGED <<props, protoCardData, loading, connection, changedProps,
                 fetches, view, ro, peer>>

\* The fetch promise i is fulfilled with a body of the given kind and the
\* callback of getProtoDataFromApi runs on it.
FetchThen(i, kind) ==
  /\ fetches[i].status = "pending"
  /\ LET data == Payload(fetches[i].id.n, kind) IN
       IF FetchThenThrows(data)
         THEN /\ fetches' = [fetches EXCEPT ![i].status = "malformed"]
              /\ UNCHANGED <<protoCardData, loading, updatePending>>
         ELSE /\ fetches' = [fetches EXCEPT ![i].status =
                                         IF kind = "ok" THEN "ok" ELSE "malformed"]
              /\ protoCardData' = FetchThenCard(data)
              /\ loading' = FALSE
              /\ updatePending' = TRUE
  /\ UNCHANGED <<props, ch, cw, connection, changedProps, view, ro, peer>>

\* The fetch promise i is rejected (the network fails, or the body is not
\* JSON): no callback of the component runs.
FetchRejected(i) ==
  /\ fetches[i].status = "pending"
  /\ fetches' = [fetches EXCEPT ![i].status = "rejected"]
  /\ UNCHANGED <<props, protoCardData, ch, cw, loading, connection,
                 changedProps, updatePending, view, ro, peer>>

\* The same three handlers on another instance p of the component, which
\* shares the observer ro: its connectedCallback, its disconnectedCallback
\* and the observer's callback for an entry whose target is p.
peerConnectedCallback(p) ==
  /\ peer[p].connection # "connected"
  /\ peer' = [peer EXCEPT ![p].connection = "connected"]
  /\ ro' = ro \cup {p}
  /\ UNCHANGED <<props, protoCardData, ch, cw, loading, connection,
                 changedProps, updatePending, fetches, view>>

peerDisconnectedCallback(p) ==
  /\ peer[p].connection = "connected"
  /\ peer' = [peer EXCEPT ![p].connection = "disconnected"]
  /\ ro' = ro \ {p}
  /\ UNCHANGED <<props, protoCardData, ch, cw, loading, connection,
                 changedProps, updatePending, fetches, view>>

peerHandleResize(p, box) ==
  /\ p \in ro
  /\ peer' = [peer EXCEPT ![p].ch = Percent(box[1]),
                          ![p].cw = Percent(box[2])]
  /\ UNCHANGED <<props, protoCardData, ch, cw, loading, connection,
                 changedProps, updatePending, fetches, view, ro>>

\* The host drives data acquisition: identifiers, direct data, the
\* element's life cycle and the network.
Next ==
  \/ \E i \in Ids : SetProtoId(i)
  \/ \E d \in InputDatas : SetInputProtoData(d)
  \/ connectedCallback
  \/ disconnectedCallback
  \/ PerformUpdate
  \/ \E i \in 1 .. Len(fetches) : \E kind \in PayloadKinds : FetchThen(i, kind)
  \/ \E i \in 1 .. Len(fetches) : FetchRejected(i)

\* The host drives presentation: quality, the legacy flag, the size hint
\* and direct data, on an element that is connected once.
NextRender ==
  \/ \E q \in Qualities : SetQuality(q)
  \/ \E b \in BOOLEAN : SetUseLegacyQualityMapping(b)
  \/ \E z \in SrcsetSizes : SetResponsiveSrcsetSizes(z)
  \/ \E d \in InputDatas : SetInputProtoData(d)
  \/ connectedCallback
  \/ PerformUpdate

SpecRender == Init /\ [][NextRender]_vars

\* Several instances share the observer: each is connected, disconnected
\* and resized on its own.
NextObserver ==
  \/ connectedCallback
  \/ disconnectedCallback
  \/ PerformUpdate
  \/ \E box \in Boxes : handleResize(box)
  \/ \E p \in Peers : peerConnectedCallback(p)
  \/ \E p \in Peers : peerDisconnectedCallback(p)
  \/ \E p \in Peers : \E box \in Boxes : peerHandleResize(p, box)

SpecObserver == Init /\ [][NextObserver]_vars

\* The observer reports resizes while the host assigns identifiers and
\* direct data and the network answers with well-formed bodies.
NextResize ==
  \/ \E i \in Ids : SetProtoId(i)
  \/ \E d \in InputDatas : SetInputProtoData(d)
  \/ connectedCallback
  \/ PerformUpdate
  \/ \E box \in Boxes : handleResize(box)
  \/ \E i \in 1 .. Len(fetches) : FetchThen(i, "ok")

SpecResize == Init /\ [][NextResize]_vars

\* The two values the class itself gives quality: the field initialiser's
\* and the constructor's.
FrameQualities == {0, 5}

\* Every kind of event on one instance: one identifier, one direct record,
\* the quality among FrameQualities, the legacy flag, the size hint,
\* resizes and well-formed answers of the network.
NextFrame ==
  \/ SetProtoId(1)
  \/ \E q \in FrameQualities : SetQuality(q)
  \/ \E b \in BOOLEAN : SetUseLegacyQualityMapping(b)
  \/ \E z \in SrcsetSizes : SetResponsiveSrcsetSizes(z)
  \/ SetInputProtoData(FullInput)
  \/ connectedCallback
  \/ PerformUpdate
  \/ \E box \in Boxes : handleResize(box)
  \/ \E i \in 1 .. Len(fetches) : FetchThen(i, "ok")

SpecFrame == Init /\ [][NextFrame]_vars

Spec == Init /\ [][Next]_vars

(***************************************************************************)
(* Properties.                                                             *)
(***************************************************************************)
Settled(i) == fetches[i].status # "pending"
AllSettled == \A i \in 1 .. Len(fetches) : Settled(i)
LayerNames(layers) == [i \in 1 .. Len(layers) |-> layers[i].layer]

\* What the card API's well-formed body for proto i normalizes to, written
\* out field by field.
ExpectedCard(i) ==
  [id |-> Num(i), type |-> Str("creature"), effect |-> Str("roar"),
   name |-> Str("card"), rarity |-> Str(Rarity(i)), god |-> Str("nature"),
   mana |-> Num(i + 1), set |-> Str("core"), art_id |-> Str("art"),
   attack |-> Num(i + 2), health |-> Num(i + 3), tribe |-> Str("beast")]

\* C1: stale-response rejection.  When two or more fetches were started by
\* identifier changes alone, and all of them have resolved with well-formed
\* bodies, the stored card data is the normalization of the body of the
\* last one started, in whatever order they resolved.
C1_StaleResponseRejected ==
  ( /\ Len(fetches) >= 2
    /\ \A i \in 1 .. Len(fetches) : fetches[i].status = "ok"
    /\ inputProtoData = Undefined )
  => protoCardData = ExpectedCard(fetches[Len(fetches)].id.n)

\* C2: loading never gets stuck.  Once every fetch that was started has
\* settled, fulfilled with any body or rejected, and no update or property
\* change is pending, nothing is left that could lower the flag: so by
\* then loading is false.
C2_LoadingNotStuck ==
  ( /\ fetches # <<>>
    /\ AllSettled
    /\ ~updatePending
    /\ changedProps = <<>> )
  => ~loading

\* C3: in every reachable state with loading = true, a render pass emits
\* exactly one layer, the loading placeholder, with no parameters.
C3_LoadingRendersPlaceholderOnly ==
  loading => renderLayers = <<[layer |-> "loading", params |-> NoKeys]>>

\* A render pass ran while loading was true and real card data was stored,
\* and it produced the placeholder alone.
C3_Witness ==
  /\ loading
  /\ protoCardData # EmptyCard
  /\ LayerNames(view.layers) = <<"loading">>

\* C4: every render pass that runs in a state with loading = false emits
\* three layers, base artwork, overlay, text, in that order; the overlay is
\* the mythic one exactly when the rarity stored at the time of the pass is
\* "mythic", and the non-mythic one for every other rarity.
C4_RenderedStackFollowsRarity ==
  [][(PerformUpdate /\ ~loading) =>
       LayerNames(view'.layers) =
         <<"baseArtwork",
           IF "rarity" \in DOMAIN protoCardData
              /\ protoCardData["rarity"] = Str("mythic")
             THEN "mythicImage"
             ELSE "nonMythicImage",
           "text">>]_vars

\* A fetched mythic card is on display after a direct, non-mythic one was.
C4_Witness ==
  /\ ~loading
  /\ inputProtoData = PartialInput
  /\ protoCardData = ExpectedCard(1)
  /\ LayerNames(view.layers) = <<"baseArtwork", "mythicImage", "text">>
  /\ view.layers[2].params["rarity"] = Str("mythic")

\* C5: with the legacy flag on, quality q in 0..7 resolves to the q-th of
\* plain, plain, bronze, iron, meteorite, shadow, gold, diamond.
C5_LegacyQualityName ==
  useLegacyQualityMapping =>
    qualityName =
      Str(CASE quality = 0 -> "plain"
            [] quality = 1 -> "plain"
            [] quality = 2 -> "bronze"
            [] quality = 3 -> "iron"
            [] quality = 4 -> "meteorite"
            [] quality = 5 -> "shadow"
            [] quality = 6 -> "gold"
            [] quality = 7 -> "diamond")

\* A render pass resolved legacy quality 7 to diamond.
C5_Witness ==
  /\ useLegacyQualityMapping
  /\ quality = 7
  /\ view.qualityName = Str("diamond")

\* C6: with the legacy flag off, quality q in 1..5 resolves to the element
\* at zero-based position q-1 of diamond, gold, shadow, meteorite, plain.
C6_CurrentQualityName ==
  (~useLegacyQualityMapping /\ quality \in 1 .. 5) =>
    \E i \in 0 .. 4 :
      /\ i = quality - 1
      /\ qualityName =
           Str(CASE i = 0 -> "diamond"
                 [] i = 1 -> "gold"
                 [] i = 2 -> "shadow"
                 [] i = 3 -> "meteorite"
                 [] i = 4 -> "plain")

\* A non-mythic overlay was rendered with quality 3 resolved to shadow.
C6_Witness ==
  /\ ~useLegacyQualityMapping
  /\ quality = 3
  /\ view.qualityName = Str("shadow")
  /\ LayerNames(view.layers) = <<"baseArtwork", "nonMythicImage", "text">>
  /\ view.layers[2].params["qualityName"] = Str("shadow")

\* C7, as claimed: with the legacy flag off, quality 1 resolves to plain
\* and quality 5 resolves to diamond.
C7_AsClaimed ==
  ~useLegacyQualityMapping =>
    /\ quality = 1 => qualityName = Str("plain")
    /\ quality = 5 => qualityName = Str("diamond")

\* C7, amended: with the legacy flag off, quality 1 resolves to diamond and
\* quality 5 resolves to plain.
C7_Amended ==
  ~useLegacyQualityMapping =>
    /\ quality = 1 => qualityName = Str("diamond")
    /\ quality = 5 => qualityName = Str("plain")

\* A render pass resolved quality 5 to plain with the legacy flag off.
C7_Witness ==
  /\ ~useLegacyQualityMapping
  /\ quality = 5
  /\ view.qualityName = Str("plain")
  /\ view.layers # <<>>

\* C8: quality resolution never silently reads an out-of-range slot: the
\* name a render pass resolved is a name of one of the two lists, never
\* undefined.
C8_NoUndefinedQualityName ==
  view # NoView =>
    \/ \E i \in 1 .. Len(legacyQualities) :
         view.qualityName = Str(legacyQualities[i])
    \/ \E i \in 1 .. Len(qualities) : view.qualityName = Str(qualities[i])

\* C9: the component never stores a card-data record whose attack, health
\* or tribe is undefined.
C9_NoUndefinedUnwrapped ==
  \A k \in {"attack", "health", "tribe"} :
    k \in DOMAIN protoCardData => protoCardData[k] # Undefined

\* C10: the step in which a fetch resolves with a well-formed body stores
\* exactly the twelve keys, nine copied verbatim and attack, health and
\* tribe taken out of their envelopes, and leaves loading false.
C10_WellFormedStored ==
  [][\A i \in 1 .. Len(fetches) :
       FetchThen(i, "ok") =>
         /\ protoCardData' = ExpectedCard(fetches[i].id.n)
         /\ DOMAIN protoCardData' = CardKeys
         /\ ~loading']_vars

\* A well-formed body for proto 2 has been stored and loading is false.
C10_Witness ==
  /\ \E i \in 1 .. Len(fetches) : fetches[i].status = "ok" /\ fetches[i].id = Num(2)
  /\ protoCardData = ExpectedCard(2)
  /\ protoCardData["attack"] = Num(4)
  /\ ~loading

\* The names of the properties changed since the last update.
Changed == {changedProps[i] : i \in 1 .. Len(changedProps)}

\* Some fetch is outstanding.
FetchOutstanding == \E i \in 1 .. Len(fetches) : fetches[i].status = "pending"

Elements == {Self} \cup Peers

\* Element e is connected to the document.
Connected(e) ==
  IF e = Self THEN connection = "connected"
  ELSE peer[e].connection = "connected"

\* Exactly the connected elements are observed.
ObservedIffConnected == \A e \in Elements : e \in ro <=> Connected(e)

\* C12: over several instances sharing the observer, an instance is observed
\* exactly while it is connected; a connection attaches it once, a
\* disconnection detaches it once, neither changes the registration of
\* another instance, and a resize changes no registration.
C12_ObservedExactlyWhileConnected ==
  [][/\ ObservedIffConnected
     /\ ObservedIffConnected'
     /\ connectedCallback => (Self \notin ro /\ ro' = ro \cup {Self})
     /\ disconnectedCallback => (Self \in ro /\ ro' = ro \ {Self})
     /\ \A p \in Peers :
          /\ peerConnectedCallback(p) => (p \notin ro /\ ro' = ro \cup {p})
          /\ peerDisconnectedCallback(p) => (p \in ro /\ ro' = ro \ {p})
     /\ \A box \in Boxes :
          /\ handleResize(box) => ro' = ro
          /\ \A p \in Peers : peerHandleResize(p, box) => ro' = ro]_vars

\* This instance is observed and has been resized while a peer that was
\* connected and resized is now disconnected and unobserved, and another
\* peer has never been connected.
C12_Witness ==
  /\ Self \in ro
  /\ ch = 4
  /\ \E p, q \in Peers :
       /\ peer[p].connection = "disconnected"
       /\ peer[p].ch = 2
       /\ p \notin ro
       /\ peer[q].connection = "created"
       /\ q \notin ro

\* The fetch for the most recently requested identifier has been started
\* and is outstanding.
LatestFetchOutstanding ==
  /\ "protoId" \notin Changed
  /\ fetches # <<>>
  /\ fetches[Len(fetches)].id = protoId
  /\ fetches[Len(fetches)].status = "pending"

\* C13: in every reachable state where the fetch for the most recently
\* requested identifier is outstanding, loading is true.
C13_LoadingWhileLatestFetchOutstanding == LatestFetchOutstanding => loading

\* C14: loading goes from false to true only in the update that handles a
\* newly assigned identifier or direct input, and it goes from true to
\* false only in the step that completes the normalization of the latest
\* acquisition: the callback of the last fetch started, or the update that
\* handles a direct input.
C14_LoadingTransitions ==
  [][/\ (~loading /\ loading') =>
          /\ PerformUpdate
          /\ Changed \cap {"protoId", "inputProtoData"} # {}
     /\ (loading /\ ~loading') =>
          \/ PerformUpdate /\ "inputProtoData" \in Changed
          \/ \E kind \in PayloadKinds : FetchThen(Len(fetches), kind)]_vars

\* The own properties of the direct input, as an object literal copies them.
OwnProperties(v) == [k \in DOMAIN v.f |-> v.f[k]]

\* C15: while a fetch is outstanding, a resize notification still updates ch
\* and cw and requests a re-render, and the update that handles a direct
\* data assignment alone still replaces the stored data with the input's
\* properties and sets loading false; both leave the fetch outstanding.
C15_ResizeAndInputWhileFetching ==
  [][FetchOutstanding =>
       /\ \A box \in Boxes :
            handleResize(box) =>
              /\ ch' * 100 = box[1]
              /\ cw' * 100 = box[2]
              /\ updatePending'
              /\ fetches' = fetches
       /\ (PerformUpdate /\ "inputProtoData" \in Changed
                         /\ "protoId" \notin Changed) =>
            /\ protoCardData' = OwnProperties(inputProtoData)
            /\ ~loading'
            /\ updatePending'
            /\ fetches' = fetches]_vars

\* With the fetch for proto 1 still outstanding, a resize to (200, 100) has
\* been applied and rendered, and the direct data has replaced the stored
\* record with loading false.
C15_Witness ==
  /\ fetches = <<[id |-> Num(1), status |-> "pending"]>>
  /\ ch = 2
  /\ cw = 1
  /\ protoCardData = OwnProperties(FullInput)
  /\ ~loading
  /\ Len(view.layers) = 3
  /\ view.layers[3].params["ch"] = Num(2)
  /\ view.layers[3].params["name"] = Str("direct")

\* C16: the stored record always has all twelve keys.
C16_StoredRecordHasAllKeys == DOMAIN protoCardData = CardKeys

\* C17: once direct data has been handled while the fetch of an earlier
\* identifier change is outstanding, the resolution of that fetch leaves
\* the stored direct data as it is.
C17_LateFetchKeepsDirectData ==
  [][\A kind \in PayloadKinds :
       ( /\ Len(fetches) = 1
         /\ ~loading
         /\ Changed = {}
         /\ inputProtoData # Undefined
         /\ protoCardData = OwnProperties(inputProtoData)
         /\ FetchThen(1, kind) )
       => protoCardData' = protoCardData]_vars

\* C18: every step that changes loading or the stored data requests a
\* re-render, and once a render pass has run and none is requested the
\* rendered layer stack is the one selected from the current state.
C18_DisplayFollowsState ==
  [][/\ (loading' # loading \/ protoCardData' # protoCardData) =>
          updatePending'
     /\ (~updatePending' /\ view' # NoView) =>
          view'.layers = renderLayers']_vars

\* The properties whose change starts no acquisition.
PresentationProps ==
  {"quality", "useLegacyQualityMapping", "responsiveSrcsetSizes"}

\* C19: a resize changes only ch and cw and requests a re-render; a fetch
\* resolution and the handling of direct data leave ch and cw unchanged; a
\* change of quality, of the legacy flag or of the size hint, and the
\* update that handles only such changes, start no fetch and leave loading
\* and the stored data unchanged.
C19_FrameConditions ==
  [][/\ \A box \in Boxes :
          handleResize(box) =>
            UNCHANGED <<props, protoCardData, loading, connection,
                        changedProps, fetches, view>>
     /\ \A i \in 1 .. Len(fetches) :
          FetchThen(i, "ok") => UNCHANGED <<ch, cw>>
     /\ (PerformUpdate /\ "inputProtoData" \in Changed) => UNCHANGED <<ch, cw>>
     /\ ( \/ \E q \in FrameQualities : SetQuality(q)
          \/ \E b \in BOOLEAN : SetUseLegacyQualityMapping(b)
          \/ \E z \in SrcsetSizes : SetResponsiveSrcsetSizes(z)
          \/ PerformUpdate /\ Changed \subseteq PresentationProps )
        => UNCHANGED <<fetches, loading, protoCardData>>]_vars

\* After resizes to (400, 300), changes of quality, legacy flag and size
\* hint, and one identifier change, a single fetch has been started and has
\* resolved: its card is stored, ch and cw are the resize's, and what is
\* rendered is the current state.
C19_Witness ==
  /\ quality = 5
  /\ useLegacyQualityMapping
  /\ responsiveSrcsetSizes = Str("100vw")
  /\ fetches = <<[id |-> Num(1), status |-> "ok"]>>
  /\ protoCardData = ExpectedCard(1)
  /\ ~loading
  /\ ch = 4
  /\ cw = 3
  /\ ~updatePending
  /\ view = render

=============================================================================
